---- MODULE Spec2Model ----
(***************************************************************************)
(* The borrow-transaction lifecycle of src/Lending.js: the three express   *)
(* handlers POST /api/transactions (RequestBorrow), PUT                    *)
(* /api/transactions/:id (DecideRequest) and POST /api/transactions/cancel *)
(* (CancelOrReturn) over the Item and Transaction collections.             *)
(*                                                                         *)
(* Every handler is an async function: it runs to its next `await` without *)
(* interruption and other requests run while it waits for the store.  One  *)
(* action of the model is therefore one store call of a handler together   *)
(* with the synchronous code that follows it up to the next await (or the  *)
(* response).  Procs are the requests the server may have in flight at the *)
(* same time.                                                              *)
(***************************************************************************)
EXTENDS Naturals, Sequences, FiniteSets

\* Largest number of Transaction documents the ledger may hold.
MaxTx == 2

Procs == {"p1", "p2"}
Users == {"u1", "u2", "u3"}
\* item ids a client may send; Init stores an item under "i1" only
ItemInputs == {"i1", "i2"}
TxIds == 1..MaxTx
\* users a client may name as the decider: the item's owner and one other user
\* (the handler compares userId with the Transaction's lenderId and nothing else;
\* "u2" is the borrower of some Transactions and not of others)
Deciders == {"u1", "u2"}
\* values a client may send as the decision: the two allowed ones and another
StatusInputs == {"approved", "rejected", "cancelled"}
\* transactionSchema.status enum
TxStatus == {"pending", "approved", "rejected", "cancelled"}
\* itemSchema.status enum
ItemStatus == {"available", "borrowed"}
\* the filter  status: { $in: ['pending', 'approved'] }
Active == {"pending", "approved"}

VARIABLES
    items,      \* Item collection: id -> [ownerId, status]
    txs,        \* Transaction collection in insertion order; a document's id is its index
    pc,         \* per request slot: the await the handler is suspended at, or "idle"
    req,        \* per request slot: req.params / req.body of the call in flight
    doc,        \* per request slot: the document the handler holds in memory
    result      \* per request slot: the last response sent

vars == <<items, txs, pc, req, doc, result>>

NoReq == [itemId |-> "none", userId |-> "none", txId |-> 0, status |-> "none"]
NoDoc == [id |-> 0, itemId |-> "none", lenderId |-> "none", status |-> "none"]

\* Transaction.find({ itemId, status: { $in: ['pending','approved'] } })
ActiveFor(itemId) ==
    {id \in DOMAIN txs : txs[id].itemId = itemId /\ txs[id].status \in Active}

\* Transaction.find({ itemId, borrowerId, status: { $in: [...] } })
\* ActiveOf without the borrowerId in the filter
ActiveOf_AnyBorrower(itemId, borrowerId) == ActiveFor(itemId)

ActiveOf(itemId, borrowerId) ==
    {id \in ActiveFor(itemId) : txs[id].borrowerId = borrowerId}

\* requests that have passed the item lookup and may still insert
Creating == {q \in Procs : pc[q] \in {"req_findTx", "req_save"}}

Init ==
    /\ items = [i \in {"i1"} |-> [ownerId |-> "u1", status |-> "available"]]
    /\ txs = << >>
    /\ pc = [p \in Procs |-> "idle"]
    /\ req = [p \in Procs |-> NoReq]
    /\ doc = [p \in Procs |-> NoDoc]
    /\ result = [p \in Procs |-> "none"]

\* the handler sends `r` and ends
Respond(p, r) ==
    /\ pc' = [pc EXCEPT ![p] = "idle"]
    /\ req' = [req EXCEPT ![p] = NoReq]
    /\ doc' = [doc EXCEPT ![p] = NoDoc]
    /\ result' = [result EXCEPT ![p] = r]

\* the handler suspends at its next await
Await(p, next, r, d) ==
    /\ pc' = [pc EXCEPT ![p] = next]
    /\ req' = [req EXCEPT ![p] = r]
    /\ doc' = [doc EXCEPT ![p] = d]
    /\ result' = [result EXCEPT ![p] = "none"]

----
\* POST /api/transactions

\* RequestCheck without the own-item check
RequestCheck_NoOwnItemCheck(itemId, borrowerId) ==
    IF itemId \notin DOMAIN items THEN "404_item" ELSE "ok"

\* the checks made on the item that Item.findOne returns
RequestCheck(itemId, borrowerId) ==
    IF itemId \notin DOMAIN items THEN "404_item"
    ELSE IF items[itemId].ownerId = borrowerId THEN "400_self_borrow"
    ELSE "ok"

\* Item.findOne({ id: itemId }), then the not-found and own-item checks
RequestBorrow(p, itemId, borrowerId) ==
    /\ pc[p] = "idle"
    /\ Len(txs) + Cardinality(Creating) < MaxTx
    /\ IF RequestCheck(itemId, borrowerId) = "ok"
       THEN Await(p, "req_findTx",
                  [NoReq EXCEPT !.itemId = itemId, !.userId = borrowerId],
                  [NoDoc EXCEPT !.itemId = itemId, !.lenderId = items[itemId].ownerId])
       ELSE Respond(p, RequestCheck(itemId, borrowerId))
    /\ UNCHANGED <<items, txs>>

\* Transaction.findOne({ itemId, status: active }), then the active-request check
\* RequestFindTx whose lookup has no status filter: any Transaction of the item,
\* a cancelled or rejected one included, makes the item unavailable
RequestFindTx_AnyStatus(p) ==
    /\ pc[p] = "req_findTx"
    /\ IF \E id \in DOMAIN txs : txs[id].itemId = req[p].itemId
       THEN Respond(p, "400_active")
       ELSE /\ pc' = [pc EXCEPT ![p] = "req_save"]
            /\ UNCHANGED <<req, doc, result>>
    /\ UNCHANGED <<items, txs>>

\* RequestFindTx that only looks for an active Transaction of the same borrower
RequestFindTx_OwnClaimOnly(p) ==
    /\ pc[p] = "req_findTx"
    /\ IF ActiveOf(req[p].itemId, req[p].userId) # {}
       THEN Respond(p, "400_active")
       ELSE /\ pc' = [pc EXCEPT ![p] = "req_save"]
            /\ UNCHANGED <<req, doc, result>>
    /\ UNCHANGED <<items, txs>>

RequestFindTx(p) ==
    /\ pc[p] = "req_findTx"
    /\ IF ActiveFor(req[p].itemId) # {}
       THEN Respond(p, "400_active")
       ELSE /\ pc' = [pc EXCEPT ![p] = "req_save"]
            /\ UNCHANGED <<req, doc, result>>
    /\ UNCHANGED <<items, txs>>

\* new Transaction({...}).save(), then the 201 response
\* RequestSave that also reserves the item by marking it borrowed
RequestSave_ReservesItem(p) ==
    /\ pc[p] = "req_save"
    /\ txs' = Append(txs, [itemId |-> req[p].itemId, lenderId |-> doc[p].lenderId,
                           borrowerId |-> req[p].userId, status |-> "pending"])
    /\ items' = [items EXCEPT ![req[p].itemId].status = "borrowed"]
    /\ Respond(p, "201")

RequestSave(p) ==
    /\ pc[p] = "req_save"
    /\ txs' = Append(txs, [itemId |-> req[p].itemId,
                           lenderId |-> doc[p].lenderId,
                           borrowerId |-> req[p].userId,
                           status |-> "pending"])
    /\ Respond(p, "201")
    /\ UNCHANGED items

----
\* PUT /api/transactions/:id

\* DecideCheck without the lender check
DecideCheck_NoLenderCheck(id, userId, status) ==
    IF id \notin DOMAIN txs THEN "404_tx"
    ELSE IF status \notin {"approved", "rejected"} THEN "400_status"
    ELSE "ok"

\* the checks made on the document that Transaction.findOne({ id }) returns
DecideCheck(id, userId, status) ==
    IF id \notin DOMAIN txs THEN "404_tx"
    ELSE IF txs[id].lenderId # userId THEN "403"
    ELSE IF status \notin {"approved", "rejected"} THEN "400_status"
    ELSE "ok"

\* Transaction.findOne({ id }), the three checks, transaction.status = status;
\* the handler then awaits the item update (approved) or the save (rejected).
\* doc.status keeps the status as it was read: save() only writes a changed path.
DecideRequest(p, id, userId, status) ==
    /\ pc[p] = "idle"
    /\ IF DecideCheck(id, userId, status) = "ok"
       THEN Await(p, IF status = "approved" THEN "dec_item" ELSE "dec_save",
                  [NoReq EXCEPT !.txId = id, !.userId = userId, !.status = status],
                  [id |-> id, itemId |-> txs[id].itemId,
                   lenderId |-> txs[id].lenderId, status |-> txs[id].status])
       ELSE Respond(p, DecideCheck(id, userId, status))
    /\ UNCHANGED <<items, txs>>

\* Item.findOneAndUpdate({ id: transaction.itemId }, { status: 'borrowed' })
DecideItem(p) ==
    /\ pc[p] = "dec_item"
    /\ items' = IF doc[p].itemId \in DOMAIN items
                THEN [items EXCEPT ![doc[p].itemId].status = "borrowed"]
                ELSE items
    /\ pc' = [pc EXCEPT ![p] = "dec_save"]
    /\ UNCHANGED <<txs, req, doc, result>>

\* what transaction.save() writes: mongoose marks `status` modified only when the
\* assigned value differs from the one the document was loaded with, and save()
\* updates the modified paths of the stored document, whatever its status is now
SaveStatus(id, loaded, assigned) ==
    IF assigned # loaded THEN [txs EXCEPT ![id].status = assigned] ELSE txs

\* transaction.save(), then the 200 response
DecideSave(p) ==
    /\ pc[p] = "dec_save"
    /\ txs' = SaveStatus(doc[p].id, doc[p].status, req[p].status)
    /\ Respond(p, "200_decided")
    /\ UNCHANGED items

----
\* POST /api/transactions/cancel

\* Transaction.findOne({ itemId, borrowerId, status: active }): any one match
CancelOrReturn(p, itemId, borrowerId) ==
    /\ pc[p] = "idle"
    /\ IF ActiveOf(itemId, borrowerId) = {}
       THEN Respond(p, "404_no_active")
       ELSE \E id \in ActiveOf(itemId, borrowerId) :
              Await(p, "can_save",
                    [NoReq EXCEPT !.itemId = itemId, !.userId = borrowerId],
                    [id |-> id, itemId |-> txs[id].itemId,
                     lenderId |-> txs[id].lenderId, status |-> txs[id].status])
    /\ UNCHANGED <<items, txs>>

\* transaction.status = 'cancelled'; transaction.save()
CancelSave(p) ==
    /\ pc[p] = "can_save"
    /\ txs' = SaveStatus(doc[p].id, doc[p].status, "cancelled")
    /\ pc' = [pc EXCEPT ![p] = "can_item"]
    /\ UNCHANGED <<items, req, doc, result>>

\* Item.findOneAndUpdate({ id: itemId }, { $set: { status: 'available' } }),
\* then the item-not-found check
CancelItem(p) ==
    /\ pc[p] = "can_item"
    /\ IF req[p].itemId \in DOMAIN items
       THEN /\ items' = [items EXCEPT ![req[p].itemId].status = "available"]
            /\ pc' = [pc EXCEPT ![p] = "can_many"]
            /\ UNCHANGED <<req, doc, result>>
       ELSE /\ Respond(p, "404_item")
            /\ UNCHANGED items
    /\ UNCHANGED txs

\* CancelledAll with the filter  status: 'pending'  ("Remove all pending ...")
CancelledAll_PendingOnly(itemId) ==
    [id \in DOMAIN txs |->
        IF txs[id].itemId = itemId /\ txs[id].status = "pending"
        THEN [txs[id] EXCEPT !.status = "cancelled"]
        ELSE txs[id]]

\* CancelledAll whose filter has no itemId: cancels the active Transactions of
\* every item
CancelledAll_EveryItem(itemId) ==
    [id \in DOMAIN txs |->
        IF txs[id].status \in Active
        THEN [txs[id] EXCEPT !.status = "cancelled"]
        ELSE txs[id]]

\* CancelledAll that also clears the lender of the Transactions it cancels
CancelledAll_ClearsLender(itemId) ==
    [id \in DOMAIN txs |->
        IF txs[id].itemId = itemId /\ txs[id].status \in Active
        THEN [txs[id] EXCEPT !.status = "cancelled", !.lenderId = "none"]
        ELSE txs[id]]

\* CancelledAll without the updateMany: only the matched Transaction is cancelled
CancelledAll_NoCascade(itemId) == txs

\* the update of Transaction.updateMany({ itemId, status: active }, cancelled)
CancelledAll(itemId) ==
    [id \in DOMAIN txs |->
        IF txs[id].itemId = itemId /\ txs[id].status \in Active
        THEN [txs[id] EXCEPT !.status = "cancelled"]
        ELSE txs[id]]

\* Transaction.updateMany(...)
CancelUpdateMany(p) ==
    /\ pc[p] = "can_many"
    /\ txs' = CancelledAll(req[p].itemId)
    /\ pc' = [pc EXCEPT ![p] = "can_users"]
    /\ UNCHANGED <<items, req, doc, result>>

\* the two User.findOne reads (they change nothing), then the 200 response
CancelRespond(p) ==
    /\ pc[p] = "can_users"
    /\ Respond(p, "200_cancelled")
    /\ UNCHANGED <<items, txs>>

----
\* one step of the request in slot p
Step(p) ==
    \/ \E i \in ItemInputs, u \in Users : RequestBorrow(p, i, u)
    \/ RequestFindTx(p)
    \/ RequestSave(p)
    \/ \E id \in TxIds, u \in Deciders, s \in StatusInputs : DecideRequest(p, id, u, s)
    \/ DecideItem(p)
    \/ DecideSave(p)
    \/ \E i \in ItemInputs, u \in Users : CancelOrReturn(p, i, u)
    \/ CancelSave(p)
    \/ CancelItem(p)
    \/ CancelUpdateMany(p)
    \/ CancelRespond(p)

\* requests are handled concurrently: any suspended handler may resume next
Next == \E p \in Procs : Step(p)

Spec == Init /\ [][Next]_vars

\* no request in flight
Quiescent == \A p \in Procs : pc[p] = "idle"

\* requests arrive one at a time: a request starts only when none is in flight
SeqNext == \E p \in Procs : (\A q \in Procs \ {p} : pc[q] = "idle") /\ Step(p)

SeqSpec == Init /\ [][SeqNext]_vars

TypeOK ==
    /\ DOMAIN items \subseteq ItemInputs
    /\ \A i \in DOMAIN items : items[i] \in [ownerId : Users, status : ItemStatus]
    /\ Len(txs) <= MaxTx
    /\ \A id \in DOMAIN txs :
         txs[id] \in [itemId : DOMAIN items, lenderId : Users,
                      borrowerId : Users, status : TxStatus]

----
\* Only borrow requests arrive (any number of them, concurrently).
ReqNext ==
    \E p \in Procs :
        \/ \E i \in ItemInputs, u \in Users : RequestBorrow(p, i, u)
        \/ RequestFindTx(p)
        \/ RequestSave(p)

ReqSpec == Init /\ [][ReqNext]_vars

\* the step is one of slot p: its handler suspended or answered
Moved(p) == pc'[p] # pc[p] \/ result'[p] # result[p]

\* Borrow requests, approvals and cancel/returns arrive concurrently; no request
\* is ever rejected.
RaceNext ==
    \E p \in Procs :
        \/ \E i \in ItemInputs, u \in Users : RequestBorrow(p, i, u)
        \/ RequestFindTx(p)
        \/ RequestSave(p)
        \/ \E id \in TxIds, u \in Deciders : DecideRequest(p, id, u, "approved")
        \/ DecideItem(p)
        \/ DecideSave(p)
        \/ \E i \in ItemInputs, u \in Users : CancelOrReturn(p, i, u)
        \/ CancelSave(p)
        \/ CancelItem(p)
        \/ CancelUpdateMany(p)
        \/ CancelRespond(p)

RaceSpec == Init /\ [][RaceNext]_vars

\* Transaction.find({ itemId, status: 'approved' })
ApprovedFor(itemId) ==
    {id \in DOMAIN txs : txs[id].itemId = itemId /\ txs[id].status = "approved"}

----
\* C1 (I1, single active claim): whenever every request made so far has completed,
\* each item has at most one Transaction whose status is pending or approved.
C1_SingleActiveClaim ==
    Quiescent => \A i \in DOMAIN items : Cardinality(ActiveFor(i)) <= 1

\* C2: borrow requests by different users for the same item never both succeed:
\* no two Transactions of one item, created for different borrowers, are active
\* together (under ReqSpec a Transaction exists exactly when its request succeeded,
\* and it stays pending).
C2_OneRequestWins ==
    \A a \in DOMAIN txs, b \in DOMAIN txs :
        (a # b /\ txs[a].itemId = txs[b].itemId /\ txs[a].borrowerId # txs[b].borrowerId)
            => ~(txs[a].status \in Active /\ txs[b].status \in Active)

\* C3 (I2, status/availability coupling): whenever every request made so far has
\* completed, an item is borrowed if and only if exactly one of its Transactions
\* is approved.
C3_BorrowedIffApproved ==
    Quiescent =>
        \A i \in DOMAIN items :
            (items[i].status = "borrowed") <=> (Cardinality(ApprovedFor(i)) = 1)

\* the status changes I5 allows
Monotone ==
    {<<"pending", "approved">>, <<"pending", "rejected">>,
     <<"pending", "cancelled">>, <<"approved", "cancelled">>}

\* C4 (I5, monotone transitions): in every step, a Transaction that changes status
\* changes it along pending -> approved | rejected | cancelled or approved ->
\* cancelled; a rejected or cancelled Transaction never changes status.
C4_MonotoneTransitions ==
    [][\A id \in DOMAIN txs :
          txs'[id].status # txs[id].status
              => <<txs[id].status, txs'[id].status>> \in Monotone]_vars

\* C5: a DecideRequest by the lender with a valid decision on a Transaction that is
\* not pending is refused: a handler gets past its checks, to the awaits where it
\* writes the item and the Transaction, only with a Transaction it read as pending.
C5_DecideOnlyPending ==
    \A p \in Procs : pc[p] \in {"dec_item", "dec_save"} => doc[p].status = "pending"

\* C6: of the DecideRequest calls racing on one pending Transaction only the first
\* to commit makes the transition: a call that read the Transaction as pending and
\* commits once another decision has been recorded fails and overwrites nothing.
C6_LoserDoesNotOverwrite ==
    [][\A p \in Procs :
          (/\ pc[p] = "dec_save"
           /\ pc'[p] # pc[p]
           /\ doc[p].status = "pending"
           /\ txs[doc[p].id].status \in {"approved", "rejected"})
              => (txs' = txs /\ result'[p] # "200_decided")]_vars

\* C7: once the racing CancelOrReturn and DecideRequest have both completed, no
\* Transaction is approved while its item is available, and no item is borrowed
\* while a Transaction of it is cancelled and none is approved.
C7_RaceEndsConsistent ==
    Quiescent =>
        \A id \in DOMAIN txs :
            /\ txs[id].status = "approved"
                  => items[txs[id].itemId].status = "borrowed"
            /\ (txs[id].status = "cancelled" /\ ApprovedFor(txs[id].itemId) = {})
                  => items[txs[id].itemId].status = "available"

\* C8 (I3, no self-borrow): a RequestBorrow by the item's owner answers 400 "You
\* cannot borrow your own item" and creates nothing, and every Transaction has a
\* borrowerId different from its lenderId.
C8_NoSelfBorrow ==
    [][/\ \A p \in Procs, i \in DOMAIN items :
             (Moved(p) /\ RequestBorrow(p, i, items[i].ownerId))
                 => (result'[p] = "400_self_borrow" /\ pc'[p] = "idle" /\ txs' = txs)
       /\ \A id \in DOMAIN txs' : txs'[id].borrowerId # txs'[id].lenderId]_vars

\* a self-borrow was refused while the ledger holds Transactions
C8_Witness ==
    \E p \in Procs : result[p] = "400_self_borrow" /\ Len(txs) >= 1

\* C9: a DecideRequest by anyone but the Transaction's lender answers 403 and
\* changes neither Transactions nor items, and a Transaction's status becomes
\* approved or rejected only by the save of a DecideRequest made by its lender.
C9_OnlyLenderDecides ==
    [][/\ \A p \in Procs, id \in DOMAIN txs, u \in Deciders, s \in StatusInputs :
             (Moved(p) /\ u # txs[id].lenderId /\ DecideRequest(p, id, u, s))
                 => (result'[p] = "403" /\ pc'[p] = "idle" /\ UNCHANGED <<txs, items>>)
       /\ \A id \in DOMAIN txs :
             (txs'[id].status # txs[id].status
                  /\ txs'[id].status \in {"approved", "rejected"})
                 => \E p \in Procs :
                        /\ pc[p] = "dec_save" /\ pc'[p] = "idle"
                        /\ doc[p].id = id
                        /\ req[p].userId = txs[id].lenderId]_vars

\* a non-lender was refused, and a Transaction has been decided
C9_Witness ==
    /\ \E p \in Procs : result[p] = "403"
    /\ \E id \in DOMAIN txs : txs[id].status \in {"approved", "rejected"}

\* C10: when a CancelOrReturn answers 200, the Transaction it matched is cancelled,
\* the item is available and no Transaction of the item is pending or approved.
C10_CancelPostcondition ==
    [][\A p \in Procs :
          (pc[p] = "can_users" /\ pc'[p] = "idle")
              => /\ result'[p] = "200_cancelled"
                 /\ txs'[doc[p].id].status = "cancelled"
                 /\ items'[req[p].itemId].status = "available"
                 /\ \A id \in DOMAIN txs' :
                        txs'[id].itemId = req[p].itemId => txs'[id].status \notin Active]_vars

\* a cancel has saved its matched Transaction and made the item available, and
\* its updateMany is about to cancel another Transaction of the item that is
\* still active
C10_Witness ==
    \E p \in Procs :
        /\ pc[p] = "can_many"
        /\ \E id \in ActiveFor(req[p].itemId) : id # doc[p].id

\* a cancel call by slot p is refused: 404 "No active transaction found", nothing written
CancelRefused(p) ==
    result'[p] = "404_no_active" /\ pc'[p] = "idle" /\ UNCHANGED <<txs, items>>

\* the Transactions that CancelOrReturn(itemId, borrowerId) can match, in a ledger t
Matching(t, itemId, borrowerId) ==
    {id \in DOMAIN t : /\ t[id].itemId = itemId
                       /\ t[id].borrowerId = borrowerId
                       /\ t[id].status \in Active}

\* C11 (idempotent cancel surface): when a CancelOrReturn(itemId, borrowerId)
\* answers 200, the state it leaves has the item available and no Transaction
\* that the same call could match, and a CancelOrReturn made in a state with no
\* such Transaction answers 404 "No active transaction found" and changes no
\* Transaction and no item; so an immediate second call fails and the item
\* remains available.
C11_SecondCancelFails ==
    [][/\ \A p \in Procs :
             (pc[p] = "can_users" /\ pc'[p] = "idle" /\ result'[p] = "200_cancelled")
                 => /\ Matching(txs', req[p].itemId, req[p].userId) = {}
                    /\ items'[req[p].itemId].status = "available"
       /\ \A p \in Procs, i \in DOMAIN items, u \in Users :
             (Moved(p) /\ Matching(txs, i, u) = {}
                       /\ items[i].status = "available" /\ CancelOrReturn(p, i, u))
                 => CancelRefused(p)]_vars

\* one slot answered 200 to a cancel and the other then answered 404 to a cancel,
\* with no request in flight
C11_Witness ==
    /\ Quiescent
    /\ \E p \in Procs, q \in Procs :
          result[p] = "200_cancelled" /\ result[q] = "404_no_active"
    /\ \A i \in DOMAIN items : items[i].status = "available" /\ ActiveFor(i) = {}

----------------------------------------------------------------------------
(* PUT /api/items/:id: 400 when the body has no `available`; otherwise one     *)
(* Item.findOneAndUpdate({ id }, { available }), 404 when no item has the id.  *)
(* `available` is not a path of itemSchema, so the update document that        *)
(* reaches the store is empty and the item's `status` is left as it was.       *)

\* values of req.body.available
AvailableInputs == {"undefined", "true", "false"}

\* UpdatedItem that writes `available` through to the item's status
UpdatedItem_WritesStatus(id, available) ==
    IF id \in DOMAIN items
    THEN [items EXCEPT ![id].status =
              IF available = "true" THEN "available" ELSE "borrowed"]
    ELSE items

\* the items collection after Item.findOneAndUpdate({ id }, { available })
UpdatedItem(id, available) == items

UpdateItem(p, id, available) ==
    /\ pc[p] = "idle"
    /\ IF available = "undefined"
       THEN /\ Respond(p, "400_available")
            /\ UNCHANGED items
       ELSE /\ items' = UpdatedItem(id, available)
            /\ Respond(p, IF id \in DOMAIN items THEN "200_item" ELSE "404_item")
    /\ UNCHANGED txs

\* one lending call at a time, with direct item updates arriving at any moment,
\* also between two store calls of the lending call in progress
ItemNext ==
    \/ SeqNext
    \/ \E p \in Procs, i \in ItemInputs, a \in AvailableInputs : UpdateItem(p, i, a)

ItemSpec == Init /\ [][ItemNext]_vars

\* C12 (borrowing requires an approval): an item's status goes from available
\* to borrowed only in the item update of a PUT /api/transactions/:id whose
\* requested status is approved; no step of a borrow request, of a rejection,
\* of a cancel or of PUT /api/items/:id makes an item borrowed.
C12_BorrowedOnlyByApproval ==
    [][\A i \in DOMAIN items :
          (items[i].status = "available" /\ items'[i].status = "borrowed")
              => \E p \in Procs : /\ pc[p] = "dec_item" /\ pc'[p] = "dec_save"
                                  /\ req[p].status = "approved"
                                  /\ doc[p].itemId = i]_vars

\* an item has been made borrowed while a direct item update with
\* available = false was answered 200
C12_Witness ==
    \E p \in Procs, i \in DOMAIN items :
        result[p] = "200_item" /\ items[i].status = "borrowed"

----------------------------------------------------------------------------
(* Store failures. Every handler body is one try block whose catch answers 500 *)
(* and undoes nothing, so when the store call a handler is suspended at        *)
(* rejects, the handler answers 500 and the writes it made before stay.        *)

StoreFails(p) ==
    /\ pc[p] # "idle"
    /\ Respond(p, "500")
    /\ UNCHANGED <<items, txs>>

\* one request at a time, any store call of which may fail
FaultNext ==
    \E p \in Procs : /\ \A q \in Procs \ {p} : pc[q] = "idle"
                     /\ (Step(p) \/ StoreFails(p))

FaultSpec == Init /\ [][FaultNext]_vars

\* the answers that report a failure
Failures == {"404_item", "400_self_borrow", "400_active", "404_tx", "403",
             "400_status", "404_no_active", "500"}

\* C13 (failure atomicity): when a call answers a failure, a store failure
\* included, nothing it did is left behind: no Transaction or item is changed
\* by the answering step, and the Transaction the call loaded still has the
\* status it was loaded with. (With one request at a time, the loaded status
\* is the status the Transaction had when the call began.)
C13_FailureAtomic ==
    [][\A p \in Procs :
          (Moved(p) /\ pc'[p] = "idle" /\ result'[p] \in Failures)
              => /\ UNCHANGED <<txs, items>>
                 /\ doc[p].id \in DOMAIN txs
                        => txs[doc[p].id].status = doc[p].status]_vars

----------------------------------------------------------------------------
\* C14 (RequestBorrow postcondition): the step on which a borrow request
\* answers 201 adds exactly one Transaction to the ledger: pending, with the
\* itemId and borrowerId of the request and lenderId equal to the ownerId of the
\* item; it changes no item and no Transaction that existed before.
C14_RequestPostcondition ==
    [][\A p \in Procs :
          (pc[p] = "req_save" /\ pc'[p] = "idle" /\ result'[p] = "201")
              => /\ Len(txs') = Len(txs) + 1
                 /\ \A id \in DOMAIN txs : txs'[id] = txs[id]
                 /\ txs'[Len(txs')] = [itemId |-> req[p].itemId,
                                       lenderId |-> items[req[p].itemId].ownerId,
                                       borrowerId |-> req[p].userId,
                                       status |-> "pending"]
                 /\ items' = items]_vars

\* a borrow request was answered 201 with an earlier Transaction in the ledger
C14_Witness ==
    \E p \in Procs : result[p] = "201" /\ Len(txs) >= 2

----------------------------------------------------------------------------
\* C15 (CancelOrReturn authorisation): a cancel call whose borrowerId is not the
\* borrowerId of any pending or approved Transaction of the item (the lender, a
\* third party, a borrower whose Transaction is already rejected or cancelled,
\* an unknown item) answers 404 "No active transaction found" and changes no
\* Transaction and no item.
C15_CancelOnlyByActiveBorrower ==
    [][\A p \in Procs, i \in ItemInputs, u \in Users :
          (Moved(p) /\ Matching(txs, i, u) = {} /\ CancelOrReturn(p, i, u))
              => CancelRefused(p)]_vars

\* a cancel was answered 404 while another user holds an approved Transaction
\* and the item is borrowed
C15_Witness ==
    /\ \E p \in Procs : result[p] = "404_no_active"
    /\ \E i \in DOMAIN items : items[i].status = "borrowed" /\ ApprovedFor(i) # {}

----------------------------------------------------------------------------
\* C16 (lender snapshot): a Transaction enters the ledger with lenderId equal to
\* the ownerId of its item, and no step ever removes a Transaction or changes
\* the itemId, lenderId or borrowerId of one.
C16_LenderSnapshot ==
    [][txs' # txs =>
          /\ Len(txs') >= Len(txs)
          /\ \A id \in DOMAIN txs : /\ txs'[id].itemId = txs[id].itemId
                                    /\ txs'[id].lenderId = txs[id].lenderId
                                    /\ txs'[id].borrowerId = txs[id].borrowerId
          /\ \A id \in (Len(txs) + 1)..Len(txs') :
                /\ txs'[id].itemId \in DOMAIN items
                /\ txs'[id].lenderId = items[txs'[id].itemId].ownerId]_vars

\* two Transactions of the item, both decided or cancelled since they were
\* created, one of them through the cascade of a cancel
C16_Witness ==
    /\ Len(txs) >= 2
    /\ \A id \in DOMAIN txs : txs[id].status = "cancelled"
    /\ \E p \in Procs : result[p] = "200_cancelled"

----------------------------------------------------------------------------
\* C17 (atomicity to observers): in every reachable state, the states between
\* two store calls of a handler included, an item that is borrowed has an
\* approved Transaction and the item of an approved Transaction is borrowed.
C17_NoTornState ==
    /\ \A i \in DOMAIN items :
          items[i].status = "borrowed" => ApprovedFor(i) # {}
    /\ \A id \in DOMAIN txs :
          (txs[id].status = "approved" /\ txs[id].itemId \in DOMAIN items)
              => items[txs[id].itemId].status = "borrowed"

----------------------------------------------------------------------------
\* the item has a pending or approved Transaction in the ledger
HasActiveClaim(itemId) ==
    \E id \in DOMAIN txs : txs[id].itemId = itemId /\ txs[id].status \in Active

\* C18 (RequestBorrow precondition order): a borrow request for an item id that
\* is not stored answers 404 "Item not found"; a request by the item's owner
\* answers 400 "You cannot borrow your own item", also when the item has a
\* pending or approved Transaction; a request by anyone else goes on to the
\* lookup of an active Transaction, and when the item has one (of another
\* borrower or of the requester) it answers 400 "Item is currently unavailable";
\* none of the three adds a Transaction.
C18_RequestCheckOrder ==
    [][/\ \A p \in Procs, i \in ItemInputs, u \in Users :
             (Moved(p) /\ RequestBorrow(p, i, u))
                 => /\ txs' = txs
                    /\ i \notin DOMAIN items
                           => (result'[p] = "404_item" /\ pc'[p] = "idle")
                    /\ (i \in DOMAIN items /\ items[i].ownerId = u)
                           => (result'[p] = "400_self_borrow" /\ pc'[p] = "idle")
                    /\ (i \in DOMAIN items /\ items[i].ownerId # u)
                           => (pc'[p] = "req_findTx" /\ req'[p].itemId = i
                                                     /\ req'[p].userId = u)
       /\ \A p \in Procs :
             (pc[p] = "req_findTx" /\ Moved(p) /\ HasActiveClaim(req[p].itemId))
                 => (result'[p] = "400_active" /\ pc'[p] = "idle" /\ txs' = txs)]_vars

\* with an active Transaction on the item, the owner's request was answered
\* 400 "own item" and another user's request 400 "currently unavailable"
C18_Witness ==
    /\ HasActiveClaim("i1")
    /\ \E p \in Procs, q \in Procs :
          result[p] = "400_self_borrow" /\ result[q] = "400_active"

----------------------------------------------------------------------------
(* Two stored items, each with its own owner, and one client per item: the     *)
(* calls of slot p1 are about item i1 and those of p2 about item i2, a decision *)
(* being about the item of the Transaction it names. The two slots interleave  *)
(* at every await.                                                             *)

Init2 ==
    /\ items = [i \in {"i1", "i2"} |->
                   [ownerId |-> IF i = "i1" THEN "u1" ELSE "u2", status |-> "available"]]
    /\ txs = << >>
    /\ pc = [p \in Procs |-> "idle"]
    /\ req = [p \in Procs |-> NoReq]
    /\ doc = [p \in Procs |-> NoDoc]
    /\ result = [p \in Procs |-> "none"]

ItemStep(p, i) ==
    \/ \E u \in Users : RequestBorrow(p, i, u)
    \/ RequestFindTx(p)
    \/ RequestSave(p)
    \/ \E id \in TxIds, u \in Deciders, s \in StatusInputs :
          /\ id \in DOMAIN txs => txs[id].itemId = i
          /\ DecideRequest(p, id, u, s)
    \/ DecideItem(p)
    \/ DecideSave(p)
    \/ \E u \in Users : CancelOrReturn(p, i, u)
    \/ CancelSave(p)
    \/ CancelItem(p)
    \/ CancelUpdateMany(p)
    \/ CancelRespond(p)

PairNext == ItemStep("p1", "i1") \/ ItemStep("p2", "i2")

PairSpec == Init2 /\ [][PairNext]_vars

\* a step leaves every item other than itemId, and every Transaction of another
\* item, as it was
OtherItemsUntouched(itemId) ==
    /\ \A j \in DOMAIN items \ {itemId} : items'[j] = items[j]
    /\ \A id \in DOMAIN txs : txs[id].itemId # itemId => txs'[id] = txs[id]

\* C19 (cross-item independence): a step of a call about item A changes neither
\* the status of another item nor a Transaction of another item, and leaves the
\* call in flight on the other item as it was; what the call reads is A's alone:
\* a borrow request is refused as "currently unavailable" exactly when A itself
\* has a pending or approved Transaction, and the Transaction a cancel loads is
\* one of A. So a call on A succeeds or fails in the same way whatever calls on
\* B are interleaved with it.
C19_CrossItemIndependence ==
    [][\A p \in Procs : Moved(p) =>
          /\ pc[p] = "idle" => UNCHANGED <<items, txs>>
          /\ pc[p] # "idle" => OtherItemsUntouched(doc[p].itemId)
          /\ \A q \in Procs \ {p} : /\ pc'[q] = pc[q] /\ result'[q] = result[q]
                                    /\ req'[q] = req[q] /\ doc'[q] = doc[q]
          /\ pc[p] = "req_findTx"
                => (result'[p] = "400_active" <=> HasActiveClaim(req[p].itemId))
          /\ pc'[p] = "can_save"
                => /\ txs[doc'[p].id].itemId = req'[p].itemId
                   /\ txs[doc'[p].id].borrowerId = req'[p].userId]_vars

\* an approval of a Transaction of i1 and a cancel on i2 are both in flight,
\* i1 already borrowed and the Transaction of i2 already cancelled
C19_Witness ==
    /\ pc["p1"] = "dec_save" /\ pc["p2"] = "can_item"
    /\ "i2" \in DOMAIN items
    /\ items["i1"].status = "borrowed"
    /\ \E id \in DOMAIN txs : txs[id].itemId = "i2" /\ txs[id].status = "cancelled"

----------------------------------------------------------------------------
\* C20 (return authority): an item goes from borrowed to available only in the
\* item update of a cancel whose caller is the borrower of the approved
\* Transaction it loaded; and the cascade of a cancel whose caller holds only a
\* pending request cancels no approved Transaction of another borrower.
C20_ReturnOnlyByApprovedBorrower ==
    [][/\ \A i \in DOMAIN items :
             (items[i].status = "borrowed" /\ items'[i].status = "available")
                 => \E p \in Procs : /\ pc[p] = "can_item" /\ pc'[p] = "can_many"
                                     /\ req[p].itemId = i
                                     /\ doc[p].status = "approved"
                                     /\ txs[doc[p].id].borrowerId = req[p].userId
       /\ \A p \in Procs, id \in DOMAIN txs :
             (/\ pc[p] = "can_many" /\ pc'[p] = "can_users"
              /\ doc[p].status = "pending"
              /\ txs[id].status = "approved"
              /\ txs[id].borrowerId # req[p].userId)
                 => txs'[id].status = "approved"]_vars

----------------------------------------------------------------------------
\* C21 (re-lendability): a cancel that answers 200 leaves its item stored and
\* without any pending or approved Transaction; and a borrow request for a
\* stored item by a user other than its owner, made when the item has no pending
\* or approved Transaction, passes the item and owner checks, passes the lookup
\* of an active Transaction, and answers 201 having added a pending Transaction
\* of that item and borrower. So the request made right after a successful
\* cancel succeeds: no leftover claim blocks the item.
C21_RelendableAfterCancel ==
    [][/\ \A p \in Procs :
             (pc[p] = "can_users" /\ pc'[p] = "idle" /\ result'[p] = "200_cancelled")
                 => /\ req[p].itemId \in DOMAIN items'
                    /\ \A id \in DOMAIN txs' :
                          txs'[id].itemId = req[p].itemId => txs'[id].status \notin Active
       /\ \A p \in Procs, i \in DOMAIN items, u \in Users :
             (Moved(p) /\ u # items[i].ownerId /\ RequestBorrow(p, i, u))
                 => /\ pc'[p] = "req_findTx"
                    /\ req'[p].itemId = i /\ req'[p].userId = u
       /\ \A p \in Procs :
             (pc[p] = "req_findTx" /\ Moved(p) /\ ~HasActiveClaim(req[p].itemId))
                 => (pc'[p] = "req_save" /\ req'[p] = req[p] /\ txs' = txs)
       /\ \A p \in Procs :
             (pc[p] = "req_save" /\ Moved(p))
                 => /\ result'[p] = "201" /\ pc'[p] = "idle"
                    /\ Len(txs') = Len(txs) + 1
                    /\ txs'[Len(txs')].itemId = req[p].itemId
                    /\ txs'[Len(txs')].borrowerId = req[p].userId
                    /\ txs'[Len(txs')].status = "pending"]_vars

\* a cancel was answered 200 and a borrow request made after it was answered
\* 201: the newest Transaction is pending, every earlier one of the item is
\* cancelled, and the item is available
C21_Witness ==
    /\ Quiescent
    /\ \E p \in Procs, q \in Procs :
          result[p] = "200_cancelled" /\ result[q] = "201"
    /\ Len(txs) >= 2
    /\ txs[Len(txs)].status = "pending"
    /\ \A id \in 1..(Len(txs) - 1) : txs[id].status = "cancelled"
    /\ items[txs[Len(txs)].itemId].status = "available"

====
